---- MODULE Spec2Model ----
(***************************************************************************)
(* The HackerScript "Fresh-Compiler" (src/source-code/Fresh-Compiler/      *)
(* main.py): an HCS source text is parsed by lark into a tree, the         *)
(* Collector (an Interpreter, top-down) fills the class table, and the     *)
(* CTransformer (a lark Transformer, bottom-up: every child of a node is   *)
(* transformed before the node's own callback runs) lowers it to C.        *)
(*                                                                         *)
(* Python strings are sequences of chunks (TLA+ strings): an identifier,   *)
(* a number or one literal piece of an f-string is one chunk, a STRING     *)
(* token is one chunk per character.  '' is << >>.                         *)
(***************************************************************************)
EXTENDS Integers, Sequences, FiniteSets, TLC

VARIABLES
    file,           \* what sys.argv[1] names: "noarg", "missing", "garbled" or "ok"
    pc,             \* position of the process: "start", "parse", "collect", "transform",
                    \* "done", "compile", "returned", "raised", "exit"
    tree,           \* the parse tree returned by parser.parse(text)
    visit,          \* Collector: the calls of the visit still to run, in call order
    col_class,      \* Collector.current_class
    col_fields,     \* Collector.class_fields (insertion-ordered dict)
    col_names,      \* Collector.class_names
    todo,           \* CTransformer: the nodes whose callback is still to run, bottom-up
    stack,          \* CTransformer: the results of the transformed subtrees
    scopes,         \* CTransformer.scopes
    current_class,  \* CTransformer.current_class
    has_main,       \* CTransformer.has_main
    mode,           \* CTransformer.mode
    emitted,        \* history: per callback run, the node it ran on and what it returned
    c_code,         \* the result of transformer.transform(tree)
    exc,            \* the exception that ended the compile, or None
    tmp_file,       \* whether /tmp/<input>.c exists
    gcc_calls,      \* how many times the C compiler was started
    gcc,            \* how the C compiler ended: "ok", "nonzero", "nostart"; "notrun" before
    status          \* the exit status of the process, or None while it runs

vars == <<file, pc, tree, visit, col_class, col_fields, col_names, todo, stack,
          scopes, current_class, has_main, mode, emitted, c_code, exc,
          tmp_file, gcc_calls, gcc, status>>

None == [k |-> "None"]

-----------------------------------------------------------------------------
(* Bounds of the checked inputs *)

MaxChain == 3       \* operands of an addition chain: 2..MaxChain
MaxBody == 4        \* statements of a generated function body: 1..MaxBody
MaxMethods == 3     \* methods of a generated class: 0..MaxMethods
MaxLit == 4         \* characters of a generated string literal: 0..MaxLit

-----------------------------------------------------------------------------
(* Python values *)

\* lark.Token, a subclass of str: isinstance(tok, str) holds
Token(type, value) == [k |-> "token", type |-> type, value |-> value]
\* lark.Tree
Tree(data, children) == [k |-> "tree", data |-> data, children |-> children]
\* the (code, type) tuple an expression callback returns
Pair(c, t) == [k |-> "tuple", c |-> c, t |-> t]
\* a plain str
Str(s) == [k |-> "str", s |-> s]
\* a list
List(items) == [k |-> "list", items |-> items]
\* a raised exception
Raise(e) == [k |-> "raise", exc |-> e]

IsTree(v) == v.k = "tree"
IsToken(v) == v.k = "token"
IsTuple(v) == v.k = "tuple"
IsRaise(v) == v.k = "raise"
\* isinstance(v, str): a str or a Token
IsStr(v) == v.k = "str" \/ v.k = "token"
\* the characters of a str or Token
Text(v) == IF v.k = "token" THEN v.value ELSE v.s

\* ''.join(parts) for a sequence of chunk sequences
RECURSIVE Concat(_)
Concat(parts) ==
    IF parts = << >> THEN << >> ELSE Head(parts) \o Concat(Tail(parts))

\* sep.join(parts)
RECURSIVE Join(_, _)
Join(sep, parts) ==
    IF parts = << >> THEN << >>
    ELSE IF Len(parts) = 1 THEN parts[1]
    ELSE parts[1] \o sep \o Join(sep, Tail(parts))

Last(s) == s[Len(s)]
Front(s) == SubSeq(s, 1, Len(s) - 1)

-----------------------------------------------------------------------------
(* Static types, as the strings the compiler uses *)

T_unknown == <<"unknown">>
T_int == <<"int">>
T_bool == <<"bool">>
T_void == <<"void">>
T_Array == <<"Array">>
T_charp == <<"char", "*">>
T_voidp == <<"void", "*">>
T_Response == <<"Response", "*">>
T_Json == <<"Json", "*">>
T_Hcl == <<"Hcl", "*">>
\* f"struct {name}*"
T_struct(name) == <<"struct ">> \o name \o <<"*">>

-----------------------------------------------------------------------------
(* The parse tree: what parser.parse(text) builds for each grammar rule *)

\* lark.Lark(grammar, start='start', parser='earley') does not pass
\* keep_all_tokens, so it has lark's default: a terminal written as a
\* literal inside a rule ("func", "(", "+", "==", "=", ".", "[" ...) is
\* filtered out of the tree; the named terminals ID, INT, STRING, MODE stay.
keep_all_tokens == FALSE

\* a literal of a rule, as it appears among the children
Lit(s) == IF keep_all_tokens THEN <<Token("ANON", <<s>>)>> ELSE << >>

ID(n) == Token("ID", <<n>>)

\* x (lit x)*
RECURSIVE Sep(_, _)
Sep(lit, items) ==
    IF Len(items) <= 1 THEN items
    ELSE <<Head(items)>> \o Lit(lit) \o Sep(lit, Tail(items))

\* atom: INT -> int_literal
rule_int_literal(n) == Tree("int_literal", <<Token("INT", <<n>>)>>)
\* atom: STRING -> string_literal; chars includes the two quotes
rule_string_literal(chars) == Tree("string_literal", <<Token("STRING", chars)>>)
\* atom: ID -> var_access
rule_var_access(n) == Tree("var_access", <<ID(n)>>)
\* atom: "new" ID "(" ")" -> new_expr
rule_new_expr(n) == Tree("new_expr", Lit("new") \o <<ID(n)>> \o Lit("(") \o Lit(")"))
\* atom: "(" expr ")" -> paren_expr
rule_paren_expr(e) == Tree("paren_expr", Lit("(") \o <<e>> \o Lit(")"))
\* args: expr ("," expr)*
rule_args(es) == Tree("args", Sep(",", es))
\* params: ID ("," ID)*
rule_params(ns) == Tree("params", Sep(",", [i \in 1..Len(ns) |-> ID(ns[i])]))
\* value "." ID -> dot_access
rule_dot_access(v, f) == Tree("dot_access", <<v>> \o Lit(".") \o <<ID(f)>>)
\* value "(" args? ")" -> call
rule_call(v, es) ==
    Tree("call", <<v>> \o Lit("(") \o (IF es = << >> THEN << >> ELSE <<rule_args(es)>>)
                 \o Lit(")"))
\* ?add: value ("+" value)*  (a single value is inlined)
rule_add(vs) == IF Len(vs) = 1 THEN vs[1] ELSE Tree("add", Sep("+", vs))
\* ?compare: add (("=="|"<"|">") add)*  (a single add is inlined)
rule_compare(vs, ops) ==
    IF Len(vs) = 1 THEN vs[1]
    ELSE Tree("compare", Concat([i \in 1..Len(vs) |->
                 (IF i = 1 THEN << >> ELSE Lit(ops[i - 1])) \o <<vs[i]>>]))
\* atom: "[" args? "]" -> array_literal
rule_array_literal(es) ==
    Tree("array_literal", Lit("[") \o (IF es = << >> THEN << >> ELSE <<rule_args(es)>>)
                          \o Lit("]"))
\* log_stmt: "log" STRING
rule_log_stmt(chars) == Tree("log_stmt", Lit("log") \o <<Token("STRING", chars)>>)
\* for_stmt: "for" ID "in" expr "[" statement* "]"
rule_for_stmt(x, coll, stmts) ==
    Tree("for_stmt", Lit("for") \o <<ID(x)>> \o Lit("in") \o <<coll>> \o Lit("[")
                     \o stmts \o Lit("]"))
\* assignment: expr "=" expr
rule_assignment(l, r) == Tree("assignment", <<l>> \o Lit("=") \o <<r>>)
\* return_stmt: "return" expr?
rule_return_stmt(es) == Tree("return_stmt", Lit("return") \o es)
\* func_call: expr "(" args? ")"
rule_func_call(e, es) ==
    Tree("func_call", <<e>> \o Lit("(") \o (IF es = << >> THEN << >> ELSE <<rule_args(es)>>)
                      \o Lit(")"))
\* func_call_stmt: func_call
rule_func_call_stmt(e, es) == Tree("func_call_stmt", <<rule_func_call(e, es)>>)
\* func_def: "func" ID "(" params? ")" "[" statement* "]"
rule_func_def(n, ps, stmts) ==
    Tree("func_def", Lit("func") \o <<ID(n)>> \o Lit("(")
                     \o (IF ps = << >> THEN << >> ELSE <<rule_params(ps)>>)
                     \o Lit(")") \o Lit("[") \o stmts \o Lit("]"))
\* class_def: "class" ID "[" func_def* "]"
rule_class_def(n, funcs) ==
    Tree("class_def", Lit("class") \o <<ID(n)>> \o Lit("[") \o funcs \o Lit("]"))
\* program: directive? import_stmt* class_def* func_def*
rule_program(classes, funcs) == Tree("program", classes \o funcs)
\* start: program
rule_start(prog) == Tree("start", <<prog>>)

\* the first ID token among the children of a node: the name the grammar
\* gives a func_def, a class_def, a var_access or a new_expr
RECURSIVE FirstID(_)
FirstID(children) ==
    IF children = << >> THEN << >>
    ELSE IF IsToken(Head(children)) /\ Head(children).type = "ID" THEN Head(children).value
    ELSE FirstID(Tail(children))

\* the children of a node that are trees, in order
Subtrees(t) == SelectSeq(t.children, IsTree)

-----------------------------------------------------------------------------
(* str() and get_value *)

\* repr(v)
RECURSIVE repr(_)
repr(v) ==
    CASE v.k = "token" ->
           <<"Token(", "'", v.type, "'", ", ", "'">> \o v.value \o <<"'", ")">>
      [] v.k = "str" -> <<"'">> \o v.s \o <<"'">>
      [] v.k = "tuple" ->
           <<"(", "'">> \o v.c \o <<"'", ", ", "'">> \o v.t \o <<"'", ")">>
      [] v.k = "list" ->
           <<"[">> \o Join(<<", ">>, [i \in 1..Len(v.items) |-> repr(v.items[i])]) \o <<"]">>
      [] v.k = "tree" ->
           <<"Tree(", "'", v.data, "'", ", ", "[">>
           \o Join(<<", ">>, [i \in 1..Len(v.children) |-> repr(v.children[i])])
           \o <<"]", ")">>
      [] OTHER -> <<"None">>

\* str(v)
str(v) == IF IsStr(v) THEN Text(v) ELSE repr(v)

RECURSIVE get_value(_)
get_value(node) ==
    IF IsTree(node)
    THEN IF node.data \in {"int_literal", "string_literal", "var_access", "new_expr"}
         THEN get_value(node.children[1])
         ELSE str(node)
    ELSE IF IsToken(node) THEN node.value
    ELSE str(node)

-----------------------------------------------------------------------------
(* Python containers *)

\* children[j], j counted from 0 as in the source
At(children, j) == children[j + 1]

\* a dict is the sequence of its items in insertion order
DictHas(d, key) == \E i \in 1..Len(d) : d[i].key = key
DictGet(d, key, default) ==
    IF DictHas(d, key)
    THEN d[CHOOSE i \in 1..Len(d) : d[i].key = key].val
    ELSE default
\* d[key] = val: an existing key keeps its place
DictSet(d, key, val) ==
    IF DictHas(d, key)
    THEN [i \in 1..Len(d) |-> IF d[i].key = key THEN [key |-> key, val |-> val] ELSE d[i]]
    ELSE Append(d, [key |-> key, val |-> val])

\* what a function returns, or the exception it raises
Ret(v) == [k |-> "ret", v |-> v]

-----------------------------------------------------------------------------
(* Collector *)

RECURSIVE Collector_infer_type(_)
RECURSIVE infer_type_add(_, _, _)

\* the loop of the 'add' branch: for i in range(1, len(tree.children), 2)
infer_type_add(children, i, left_t) ==
    IF i >= Len(children) THEN Ret(left_t)
    ELSE IF i + 1 >= Len(children) THEN Raise("IndexError")
    ELSE LET right == Collector_infer_type(At(children, i + 1)) IN
         IF IsRaise(right) THEN right
         ELSE infer_type_add(children, i + 2,
                             IF left_t = T_charp \/ right.v = T_charp
                             THEN T_charp ELSE T_int)

Collector_infer_type(t) ==
    IF ~IsTree(t) THEN Ret(T_unknown)
    ELSE IF t.data = "string_literal" THEN Ret(T_charp)
    ELSE IF t.data = "int_literal" THEN Ret(T_int)
    ELSE IF t.data = "null_literal" THEN Ret(T_voidp)
    ELSE IF t.data = "add" THEN
        IF Len(t.children) < 1 THEN Raise("IndexError")
        ELSE LET left == Collector_infer_type(At(t.children, 0)) IN
             IF IsRaise(left) THEN left ELSE infer_type_add(t.children, 1, left.v)
    ELSE IF t.data = "call" THEN
        IF Len(t.children) < 1 THEN Raise("IndexError")
        ELSE LET func == At(t.children, 0) IN
             IF IsTree(func) /\ func.data = "var_access"
             THEN IF Len(func.children) < 1 THEN Raise("IndexError")
                  ELSE LET name == get_value(At(func.children, 0)) IN
                       IF name = <<"allocate">> THEN Ret(T_voidp)
                       ELSE IF name \in {<<"read_file">>, <<"get_current_version">>,
                                         <<"get_remote_version">>, <<"replace">>,
                                         <<"get_cwd">>} THEN Ret(T_charp)
                       ELSE IF name = <<"curl_get">> THEN Ret(T_Response)
                       ELSE IF name = <<"json_parse">> THEN Ret(T_Json)
                       ELSE IF name = <<"list_dir">> THEN Ret(T_Array)
                       ELSE IF name = <<"parse_hcl">> THEN Ret(T_Hcl)
                       ELSE Ret(T_unknown)
             ELSE Ret(T_unknown)
    ELSE IF t.data = "new_expr" THEN
        IF Len(t.children) < 2 THEN Raise("IndexError")
        ELSE Ret(T_struct(get_value(At(t.children, 1))))
    ELSE Ret(T_unknown)

\* Collector.assignment: the class_fields after the call, or the exception
Collector_assignment(t, cur_class, fields) ==
    IF Len(t.children) < 3 THEN Ret(fields)
    ELSE LET left == At(t.children, 0)
             right == At(t.children, 2) IN
         IF ~IsTree(left) \/ left.data # "dot_access" THEN Ret(fields)
         ELSE IF Len(left.children) < 3 THEN Ret(fields)
         ELSE LET left_left == At(left.children, 0) IN
              IF ~IsTree(left_left) \/ left_left.data # "var_access" THEN Ret(fields)
              ELSE IF Len(left_left.children) < 1 THEN Ret(fields)
              ELSE IF get_value(At(left_left.children, 0)) # <<"self">>
                      \/ cur_class = None \/ cur_class = Str(<< >>) THEN Ret(fields)
              ELSE LET field_name == get_value(At(left.children, 2))
                       field_type == Collector_infer_type(right) IN
                   IF IsRaise(field_type) THEN field_type
                   ELSE Ret(DictSet(fields, cur_class.s,
                                    DictSet(DictGet(fields, cur_class.s, << >>),
                                            field_name, field_type.v)))

\* the calls Interpreter.visit makes on a tree, in order: a rule without a
\* method of its own gets visit_children
RECURSIVE VisitCalls(_)
VisitCalls(t) ==
    LET sub == Subtrees(t)
        below == Concat([i \in 1..Len(sub) |-> VisitCalls(sub[i])]) IN
    IF t.data = "class_def"
    THEN <<[call |-> "class_def", node |-> t]>> \o below
         \o <<[call |-> "class_def_end", node |-> t]>>
    ELSE IF t.data = "assignment" THEN <<[call |-> "assignment", node |-> t]>>
    ELSE below

-----------------------------------------------------------------------------
(* CTransformer: helpers on strings *)

\* s[:-1] of a type string: "*" is a chunk of its own, the other last
\* chunks a type can have lose their last character
ButLastChar(s) ==
    IF s = << >> THEN << >>
    ELSE IF Last(s) = "*" THEN Front(s)
    ELSE Front(s) \o <<CASE Last(s) = "int" -> "in"
                         [] Last(s) = "bool" -> "boo"
                         [] Last(s) = "void" -> "voi"
                         [] Last(s) = "Array" -> "Arra"
                         [] Last(s) = "unknown" -> "unknow"
                         [] OTHER -> Last(s)>>

\* s.startswith('struct ') and s.endswith('*')
IsStructPtr(s) == s # << >> /\ s[1] = "struct " /\ Last(s) = "*"

\* '->' in s
HasArrow(s) == \E i \in 1..Len(s) : s[i] = "->"

\* s.split('->')[-1]
AfterLastArrow(s) ==
    LET i == CHOOSE j \in 1..Len(s) :
                 s[j] = "->" /\ \A m \in (j + 1)..Len(s) : s[m] # "->" IN
    SubSeq(s, i + 1, Len(s))

\* var.strip() for a sequence of characters
RECURSIVE lstrip(_)
lstrip(s) == IF s # << >> /\ Head(s) = " " THEN lstrip(Tail(s)) ELSE s
RECURSIVE rstrip(_)
rstrip(s) == IF s # << >> /\ Last(s) = " " THEN rstrip(Front(s)) ELSE s
strip(s) == rstrip(lstrip(s))

\* the inner loop of process_interpolation: while i < len(s) and s[i] != '}'
RECURSIVE interp_var(_, _, _)
interp_var(s, i, var) ==
    IF i < Len(s) /\ At(s, i) # "}" THEN interp_var(s, i + 1, Append(var, At(s, i)))
    ELSE [i |-> i, var |-> var]

\* the outer loop of process_interpolation; fmt is ''.join(parts + [current])
RECURSIVE interp_walk(_, _, _, _)
interp_walk(s, i, fmt, vs) ==
    IF i >= Len(s) THEN [fmt |-> fmt, vars |-> vs]
    ELSE IF At(s, i) = "{"
         THEN LET r == interp_var(s, i + 1, << >>) IN
              interp_walk(s, r.i + 1, Append(fmt, "%s"), Append(vs, strip(r.var)))
         ELSE interp_walk(s, i + 1, Append(fmt, At(s, i)), vs)

process_interpolation(quoted) ==
    LET s == SubSeq(quoted, 2, Len(quoted) - 1) IN
    IF ~(\E i \in 1..Len(s) : s[i] = "{") THEN <<"\"">> \o s \o <<"\"">>
    ELSE LET w == interp_walk(s, 0, << >>, << >>) IN
         <<"(char*)({ char *str = NULL; asprintf(&str, \"">> \o w.fmt \o <<"\", ">>
         \o Join(<<", ">>, w.vars) \o <<"); str; })">>

-----------------------------------------------------------------------------
(* CTransformer: expressions.  Each callback gets the list of the already *)
(* transformed children of its node.                                       *)

get_type(sc, name) ==
    IF \E i \in 1..Len(sc) : DictHas(sc[i], name)
    THEN LET i == CHOOSE j \in 1..Len(sc) :
                      DictHas(sc[j], name) /\ \A m \in (j + 1)..Len(sc) : ~DictHas(sc[m], name)
         IN Ret(DictGet(sc[i], name, T_unknown))
    ELSE None

params(children) ==
    LET ids == SelectSeq(children, LAMBDA c : c.type = "ID") IN
    List([i \in 1..Len(ids) |-> Str(get_value(ids[i]))])

args(children) == List(SelectSeq(children, IsTuple))

var_access(children, sc) ==
    IF Len(children) < 1 THEN Pair(<< >>, T_unknown)
    ELSE LET name == get_value(At(children, 0))
             type_ == get_type(sc, name) IN
         Pair(name, IF type_ = None THEN T_unknown ELSE type_.v)

dot_access(children, class_fields) ==
    IF Len(children) < 3 THEN Pair(<< >>, T_unknown)
    ELSE IF ~IsTuple(At(children, 0)) THEN Raise("ValueError")
    ELSE LET left_c == At(children, 0).c
             left_t == At(children, 0).t
             right == get_value(At(children, 2)) IN
         IF IsStructPtr(left_t)
         THEN LET class_name == SubSeq(left_t, 2, Len(left_t) - 1) IN
              Pair(left_c \o <<"->">> \o right,
                   DictGet(DictGet(class_fields, class_name, << >>), right, T_charp))
         ELSE IF left_t = T_Array
         THEN IF right = <<"length">> THEN Pair(left_c \o <<".len">>, T_int)
              ELSE Pair(left_c \o <<".">> \o right, T_unknown)
         ELSE IF left_t = T_Response
         THEN Pair(left_c \o <<"->">> \o right,
                   IF right = <<"status">> THEN T_int ELSE T_charp)
         ELSE Pair(left_c \o <<"->">> \o right, T_unknown)

infer_call_type(name) ==
    IF name \in {<<"build">>, <<"run">>, <<"install">>, <<"remove">>, <<"version_compare">>}
    THEN T_int
    ELSE IF name \in {<<"get_current_version">>, <<"get_remote_version">>, <<"replace">>,
                      <<"get_cwd">>, <<"read_file">>, <<"write_file">>, <<"read_input">>}
    THEN T_charp
    ELSE IF name = <<"curl_get">> THEN T_Response
    ELSE IF name = <<"json_parse">> THEN T_Json
    ELSE IF name = <<"parse_hcl">> THEN T_Hcl
    ELSE IF name = <<"list_dir">> THEN T_Array
    ELSE IF name = <<"file_exists">> THEN T_bool
    ELSE T_unknown

\* ', '.join(a[0] for a in args): args is the list args() returned, or (a
\* Token being a str) the characters of the token that sits at children[2]
call_args_c(a) ==
    IF a.k = "list" THEN Join(<<", ">>, [i \in 1..Len(a.items) |-> a.items[i].c])
    ELSE Join(<<", ">>, [i \in 1..Len(Text(a)) |-> <<Text(a)[i]>>])

call(children, class_names) ==
    IF Len(children) < 1 THEN Pair(<< >>, T_unknown)
    ELSE IF ~IsTuple(At(children, 0)) THEN Raise("ValueError")
    ELSE LET func_c == At(children, 0).c
             func_t == At(children, 0).t
             args_c == IF Len(children) > 2 THEN call_args_c(At(children, 2)) ELSE << >> IN
         IF func_t = T_unknown
         THEN LET name == func_c IN
              IF name = <<"allocate">> THEN Pair(<<"malloc(">> \o args_c \o <<")">>, T_voidp)
              ELSE IF name = <<"deallocate">> THEN Pair(<<"free(">> \o args_c \o <<")">>, T_void)
              ELSE IF name = <<"version_compare">>
                   THEN Pair(<<"strcmp(">> \o args_c \o <<")">>, T_int)
              ELSE Pair(name \o <<"(">> \o args_c \o <<")">>, infer_call_type(name))
         ELSE LET method == IF HasArrow(func_c) THEN AfterLastArrow(func_c) ELSE func_c
                  full_name == IF ButLastChar(func_t) \in class_names
                               THEN (IF Last(func_t) = "*" THEN ButLastChar(func_t) ELSE func_t)
                                    \o <<"_">> \o method
                               ELSE method
                  args2 == func_c \o (IF args_c # << >> THEN <<", ">> \o args_c ELSE << >>) IN
              Pair(full_name \o <<"(">> \o args2 \o <<")">>, infer_call_type(method))

func_call(children) ==
    IF Len(children) < 1 THEN Raise("IndexError") ELSE At(children, 0)

new_expr(children) ==
    IF Len(children) < 2 THEN Pair(<< >>, T_unknown)
    ELSE LET name == get_value(At(children, 1)) IN
         Pair(<<"(struct ">> \o name \o <<"*)malloc(sizeof(struct ">> \o name \o <<"))">>,
              T_struct(name))

string_literal(children) ==
    IF Len(children) < 1 THEN Pair(<< >>, T_charp)
    ELSE Pair(process_interpolation(At(children, 0).value), T_charp)

int_literal(children) ==
    IF Len(children) < 1 THEN Pair(<< >>, T_int)
    ELSE Pair(At(children, 0).value, T_int)

\* the loop of add: while i + 1 < len(children)
RECURSIVE add_loop(_, _, _)
add_loop(children, i, left) ==
    IF ~(i + 1 < Len(children)) THEN left
    ELSE LET right == At(children, i + 1) IN
         IF ~IsTuple(left) \/ ~IsTuple(right) THEN Raise("ValueError")
         ELSE IF left.t = T_charp \/ right.t = T_charp
         THEN add_loop(children, i + 2,
                       Pair(<<"(char*)({ char *res = NULL; asprintf(&res, \"%s%s\", ">>
                            \o left.c \o <<", ">> \o right.c \o <<"); res; })">>, T_charp))
         ELSE add_loop(children, i + 2,
                       Pair(<<"(">> \o left.c \o <<" + ">> \o right.c \o <<")">>, T_int))

add(children) ==
    IF Len(children) = 1 THEN At(children, 0)
    ELSE IF Len(children) < 1 THEN Raise("IndexError")
    ELSE add_loop(children, 1, At(children, 0))

\* str(n) for the lengths that occur
IntStr(n) == CASE n = 0 -> "0" [] n = 1 -> "1" [] n = 2 -> "2" [] n = 3 -> "3" [] OTHER -> "n"

array_literal(children) ==
    LET a == IF Len(children) = 3 THEN At(children, 1) ELSE List(<< >>) IN
    IF a.k # "list" \/ \E i \in 1..Len(a.items) : ~IsTuple(a.items[i])
    THEN Raise("TypeError")
    ELSE Pair(<<"(Array){.data = (char**)(char*[]){ ">>
              \o Join(<<", ">>, [i \in 1..Len(a.items) |-> a.items[i].c])
              \o <<" }, .len = ", IntStr(Len(a.items)), " }">>, T_Array)

paren_expr(children) ==
    IF Len(children) < 2 THEN Raise("IndexError") ELSE At(children, 1)

\* the loop of compare: while i + 1 < len(children)
RECURSIVE compare_loop(_, _, _)
compare_loop(children, i, left) ==
    IF ~(i + 1 < Len(children)) THEN left
    ELSE LET op_node == At(children, i)
             right == At(children, i + 1) IN
         IF ~IsToken(op_node) THEN Raise("AttributeError")
         ELSE IF ~IsTuple(left) \/ ~IsTuple(right) THEN Raise("ValueError")
         ELSE LET op == op_node.value IN
              IF op = <<"==">>
              THEN IF left.t = T_charp /\ right.t = T_charp
                   THEN compare_loop(children, i + 2,
                            Pair(<<"(strcmp(">> \o left.c \o <<", ">> \o right.c
                                 \o <<") == 0)">>, T_bool))
                   ELSE compare_loop(children, i + 2,
                            Pair(<<"(">> \o left.c \o <<" == ">> \o right.c \o <<")">>,
                                 T_bool))
              ELSE IF op = <<"<">>
              THEN compare_loop(children, i + 2,
                       Pair(<<"(">> \o left.c \o <<" < ">> \o right.c \o <<")">>, T_bool))
              ELSE IF op = <<">">>
              THEN compare_loop(children, i + 2,
                       Pair(<<"(">> \o left.c \o <<" > ">> \o right.c \o <<")">>, T_bool))
              ELSE Raise("UnboundLocalError")

compare(children) ==
    IF Len(children) = 1 THEN At(children, 0)
    ELSE IF Len(children) < 1 THEN Raise("IndexError")
    ELSE compare_loop(children, 1, At(children, 0))

-----------------------------------------------------------------------------
(* CTransformer: statements *)

\* the literal pieces of the emitted fragments that hold a space, a dot, or
\* start with a parenthesis (identifiers and numbers hold none)
SpaceChunks ==
    {" ", ", ", " + ", " = ", "(struct ", "*)malloc(sizeof(struct ", "\", ",
     " == ", " < ", " > ", ") == 0)", "(Array){.data = (char**)(char*[]){ ",
     " }, .len = ", " }",
     "(char*)({ char *str = NULL; asprintf(&str, \"", "); str; })",
     "(char*)({ char *res = NULL; asprintf(&res, \"%s%s\", ", "); res; })"}
DotChunks == {".", ".len", "(Array){.data = (char**)(char*[]){ ", " }, .len = "}
ParenChunks ==
    {"(", "(struct ", "(strcmp(", "(Array){.data = (char**)(char*[]){ ", "(char*)({ char *str = NULL; asprintf(&str, \"",
     "(char*)({ char *res = NULL; asprintf(&res, \"%s%s\", "}

\* ' ' not in s and '->' not in s and '.' not in s and not s.startswith('(')
IsBareName(s) ==
    /\ \A i \in 1..Len(s) : s[i] \notin SpaceChunks
    /\ ~HasArrow(s)
    /\ \A i \in 1..Len(s) : s[i] \notin DotChunks
    /\ ~(s # << >> /\ s[1] \in ParenChunks)

\* scopes[-1][name] = t
BindInnermost(sc, name, t) ==
    [sc EXCEPT ![Len(sc)] = DictSet(sc[Len(sc)], name, t)]

\* an assignment that reads its two children [lhs, rhs] and binds the name
assignment_of_two(children, sc) ==
    IF Len(children) < 2 THEN [res |-> Str(<< >>), scopes |-> sc]
    ELSE LET left_c == At(children, 0).c
             right_c == At(children, 1).c
             right_t == At(children, 1).t IN
         [res |-> Str(left_c \o <<" = ">> \o right_c \o <<";\n">>),
          scopes |-> IF get_type(sc, left_c) = None /\ IsBareName(left_c)
                     THEN BindInnermost(sc, left_c,
                                        IF right_t # T_unknown THEN right_t ELSE T_charp)
                     ELSE sc]

\* an assignment that reads its two children [lhs, rhs] and binds the name
\* to the right-hand type as it is, unknown included
assignment_unwidened(children, sc) ==
    IF Len(children) < 2 THEN [res |-> Str(<< >>), scopes |-> sc]
    ELSE LET left_c == At(children, 0).c
             right_c == At(children, 1).c
             right_t == At(children, 1).t IN
         [res |-> Str(left_c \o <<" = ">> \o right_c \o <<";\n">>),
          scopes |-> IF get_type(sc, left_c) = None /\ IsBareName(left_c)
                     THEN BindInnermost(sc, left_c, right_t)
                     ELSE sc]

\* the returned fragment and the scope stack after the call
assignment(children, sc) ==
    IF Len(children) < 3 THEN [res |-> Str(<< >>), scopes |-> sc]
    ELSE IF ~IsTuple(At(children, 0)) \/ ~IsTuple(At(children, 2))
    THEN [res |-> Raise("ValueError"), scopes |-> sc]
    ELSE LET left_c == At(children, 0).c
             right_c == At(children, 2).c
             right_t == At(children, 2).t IN
         [res |-> Str(left_c \o <<" = ">> \o right_c \o <<";\n">>),
          scopes |-> IF get_type(sc, left_c) = None /\ IsBareName(left_c)
                     THEN BindInnermost(sc, left_c,
                                        IF right_t # T_unknown THEN right_t ELSE T_charp)
                     ELSE sc]

log_stmt(children) ==
    IF Len(children) < 2 THEN Str(<< >>)
    ELSE Str(<<"printf(\"%s\\n\", ">> \o process_interpolation(At(children, 1).value)
             \o <<");\n">>)

return_stmt(children) ==
    IF Len(children) < 1 THEN Str(<< >>)
    ELSE IF Len(children) = 1 THEN Str(<<"return;\n">>)
    ELSE IF ~IsTuple(At(children, 1)) THEN Raise("ValueError")
    ELSE Str(<<"return ">> \o At(children, 1).c \o <<";\n">>)

func_call_stmt(children) ==
    IF Len(children) < 1 THEN Str(<< >>)
    ELSE IF ~IsTuple(At(children, 0)) THEN Raise("ValueError")
    ELSE Str(At(children, 0).c \o <<";\n">>)

\* ''.join(c for c in children if isinstance(c, str))
JoinStrs(children) ==
    LET strs == SelectSeq(children, IsStr) IN
    Concat([i \in 1..Len(strs) |-> Text(strs[i])])

\* the returned loop; the callback reads and writes no scope frame
for_stmt(children) ==
    IF Len(children) < 6 THEN Str(<< >>)
    ELSE LET var == get_value(At(children, 1))
             collection == At(children, 3)
             collection_c == IF IsTuple(collection) THEN collection.c
                             ELSE IF IsToken(collection) THEN collection.value
                             ELSE str(collection)
             block == JoinStrs(SubSeq(children, 6, Len(children)))
         IN Str(<<"for (int _">> \o var \o <<"_i = 0; _">> \o var \o <<"_i < ">>
                \o collection_c \o <<".len; _">> \o var \o <<"_i++) { char* ">> \o var
                \o <<" = ">> \o collection_c \o <<".data[_">> \o var \o <<"_i]; ">>
                \o block \o <<" }\n">>)

-----------------------------------------------------------------------------
(* CTransformer: definitions *)

\* the names of a list of str
Names(l) == [i \in 1..Len(l.items) |-> l.items[i].s]

IntFuncs == {<<"hs_main">>, <<"build">>, <<"run">>, <<"install">>, <<"remove">>,
             <<"version_compare">>}

\* a pop that is forgotten
scopes_keep(sc) == sc

\* self.scopes.pop()
scopes_pop(sc) == Front(sc)

\* the returned definition, and scopes and has_main after the call
func_def(children, sc, cur_class, main_flag) ==
    IF Len(children) < 5
    THEN [res |-> Str(<< >>), scopes |-> sc, has_main |-> main_flag]
    ELSE
    LET name0 == get_value(At(children, 1))
        sc1 == Append(sc, << >>)
        is_main == name0 = <<"main">>
        name1 == IF is_main THEN <<"hs_main">> ELSE name0
        in_class == cur_class # None /\ cur_class # Str(<< >>)
        name == IF in_class THEN cur_class.s \o <<"_">> \o name1 ELSE name1
        ptrees == SelectSeq(children, LAMBDA c : IsTree(c) /\ c.data = "params")
        param_list == IF ptrees # << >> THEN Names(params(ptrees[1].children)) ELSE << >>
        is_param(n) == \E i \in 1..Len(param_list) : param_list[i] = n
        block_c == JoinStrs(children)
        bind[i \in 0..Len(param_list)] ==
            IF i = 0 THEN sc1
            ELSE BindInnermost(bind[i - 1], param_list[i],
                               IF param_list[i] = <<"args">> THEN T_Array ELSE T_charp)
        sc2 == bind[Len(param_list)]
        frame == sc2[Len(sc2)]
        locals == SelectSeq(frame, LAMBDA e : ~is_param(e.key))
        locals_decl == Concat([i \in 1..Len(locals) |->
                          (IF locals[i].val # T_unknown THEN locals[i].val ELSE T_charp)
                          \o <<" ">> \o locals[i].key \o <<";\n">>])
        sc3 == scopes_pop(sc2)
        param_str == Join(<<", ">>, [i \in 1..Len(param_list) |->
                          (IF get_type(sc3, param_list[i]) = None THEN T_charp
                           ELSE get_type(sc3, param_list[i]).v)
                          \o <<" ">> \o param_list[i]])
        ret_type == IF name \in IntFuncs THEN T_int ELSE T_void
        self_param == IF in_class THEN <<"struct ">> \o cur_class.s \o <<"* self, ">>
                      ELSE << >>
    IN [res |-> Str(ret_type \o <<" ">> \o name \o <<"(">> \o self_param \o param_str
                    \o <<") { ">> \o locals_decl \o block_c \o <<" }\n">>),
        scopes |-> sc3,
        has_main |-> main_flag \/ is_main]

\* the returned definition and current_class after the call: the callback
\* sets current_class to the class's name and back while it joins the
\* children, which were transformed before it was called
class_def(children, cur_class, class_fields) ==
    IF Len(children) < 4 THEN [res |-> Str(<< >>), current_class |-> cur_class]
    ELSE
    LET name == get_value(At(children, 1))
        old_class == cur_class
        funcs_c == JoinStrs(SubSeq(children, 4, Len(children)))
        fields == DictGet(class_fields, name, << >>)
        field_str0 == Concat([i \in 1..Len(fields) |->
                          fields[i].val \o <<" ">> \o fields[i].key \o <<";\n">>])
        field_str == IF field_str0 = << >>
                     THEN <<"char dummy; // to avoid empty struct\n">> ELSE field_str0
    IN [res |-> Str(<<"struct ">> \o name \o <<" { ">> \o field_str \o <<" };\n">>
                    \o funcs_c),
        current_class |-> old_class]

\* the fixed prelude of the emitted C
Header == <<"#define _GNU_SOURCE\n#include <stdio.h>\n...typedef struct { ... } Hcl;\n">>
DeferMacro == <<"#define defer(stmt) for (int _i = 1; _i--; (stmt)) ">>
MainWrapper ==
    <<"\nint main(int argc, char** argv) { Array args = {argv + 1, argc - 1}; return hs_main(args); }\n">>

\* i.startswith('#include')
IsInclude(s) == s # << >> /\ s[1] \in {"#include <", "#include \""}

program(children, md, main_flag) ==
    LET strs == SelectSeq(children, IsStr)
        incl == SelectSeq(strs, LAMBDA c : IsInclude(Text(c)))
        rest == SelectSeq(strs, LAMBDA c : ~IsInclude(Text(c)))
        imports == Concat([i \in 1..Len(incl) |-> Text(incl[i])])
        defs == Concat([i \in 1..Len(rest) |-> Text(rest[i])])
        header == Header \o (IF md = "manual" THEN DeferMacro ELSE << >>)
    IN Str(header \o imports \o defs \o (IF main_flag THEN MainWrapper ELSE << >>))

start(children) ==
    IF Len(children) < 1 THEN Raise("IndexError") ELSE At(children, 0)

-----------------------------------------------------------------------------
(* The order of the callbacks: Transformer.transform works bottom-up, the *)
(* children of a node left to right and then the node itself.              *)

Hole == [k |-> "hole"]

\* the callbacks transform(t) runs, in order.  Each entry holds the node's
\* tag and its children with a Hole where a subtree's result goes; path (the
\* child indices from the root) and cls (the name of the class whose body
\* holds the node, << >> if none) locate the node in the source text.
RECURSIVE PostOrder(_, _, _)
PostOrder(t, cls, path) ==
    LET inner == IF t.data = "class_def" THEN FirstID(t.children) ELSE cls IN
    Concat([i \in 1..Len(t.children) |->
               IF IsTree(t.children[i])
               THEN PostOrder(t.children[i], inner, Append(path, i))
               ELSE << >>])
    \o <<[data |-> t.data,
          kids |-> [i \in 1..Len(t.children) |->
                       IF IsTree(t.children[i]) THEN Hole ELSE t.children[i]],
          cls |-> cls,
          path |-> path]>>

RECURSIVE Fill(_, _)
Fill(kids, results) ==
    IF kids = << >> THEN << >>
    ELSE IF Head(kids).k = "hole"
         THEN <<Head(results)>> \o Fill(Tail(kids), Tail(results))
         ELSE <<Head(kids)>> \o Fill(Tail(kids), results)

NHoles(kids) == Len(SelectSeq(kids, LAMBDA c : c.k = "hole"))

\* the node whose callback runs next, and the children list it is called with
Item == Head(todo)
Kids == Fill(Item.kids, SubSeq(stack, Len(stack) - NHoles(Item.kids) + 1, Len(stack)))
Below == SubSeq(stack, 1, Len(stack) - NHoles(Item.kids))

\* the subtree of t at a path
RECURSIVE NodeAt(_, _)
NodeAt(t, path) == IF path = << >> THEN t ELSE NodeAt(t.children[Head(path)], Tail(path))

-----------------------------------------------------------------------------
(* The checked inputs: the parse trees of a family of HCS programs *)

Quoted(chars) == <<"\"">> \o chars \o <<"\"">>
Int1 == rule_int_literal("1")
Int0 == rule_int_literal("0")
StrS == rule_string_literal(Quoted(<<"s">>))
Var(n) == rule_var_access(n)

\* a + b + ... with 2..MaxChain operands, each 1 or "s"
Chains ==
    UNION {{rule_add(ops) : ops \in [1..n -> {Int1, StrS}]} : n \in 2..MaxChain}

\* the right-hand sides tried
Exprs ==
    {Int1, StrS, Var("x"), rule_new_expr("Pkg")}
    \cup Chains
    \cup {rule_call(Var(f), << >>) : f \in {"read_input", "read_file", "allocate", "foo"}}
    \cup {rule_call(Var("version_compare"), <<StrS, StrS>>),
          rule_call(rule_dot_access(Var("p"), "build"), << >>),
          rule_call(rule_dot_access(Var("q"), "run"), <<Int1>>),
          rule_call(rule_dot_access(rule_new_expr("Pkg"), "build"), << >>)}

\* the i-th statement of a function body
Stmt(i, e) ==
    CASE i % 4 = 1 -> rule_assignment(Var("p"), rule_new_expr("Pkg"))
      [] i % 4 = 2 -> rule_assignment(Var("x"), e)
      [] i % 4 = 3 -> rule_func_call_stmt(rule_dot_access(Var("p"), "build"), <<Var("x")>>)
      [] OTHER -> rule_return_stmt(<<Int0>>)

\* the j-th method of the class
Method(j, e) ==
    rule_func_def(CASE j % 3 = 1 -> "build" [] j % 3 = 2 -> "init" [] OTHER -> "main",
                  IF j % 2 = 0 THEN <<"a">> ELSE << >>,
                  <<rule_assignment(rule_dot_access(Var("self"), "n"), Int1),
                    rule_assignment(rule_dot_access(Var("self"), "c"), StrS),
                    rule_assignment(rule_dot_access(Var("self"), "n"), e),
                    rule_assignment(Var("x"), e)>>)

\* the signatures tried for the function outside the class
Sigs ==
    {[f |-> "main", ps |-> <<"args">>], [f |-> "main", ps |-> << >>],
     [f |-> "f", ps |-> <<"a", "args">>], [f |-> "build", ps |-> << >>]}

\* class Pkg with 0..MaxMethods methods, then func main(args) [ p = new Pkg() x = e ]
ClassPrograms ==
    {rule_start(rule_program(
        <<rule_class_def("Pkg", [j \in 1..m |-> Method(j, e)])>>,
        <<rule_func_def("main", <<"args">>, [i \in 1..2 |-> Stmt(i, e)])>>)) :
        m \in 0..MaxMethods, e \in Exprs}

\* one function with 1..MaxBody statements and no class
FuncPrograms ==
    {rule_start(rule_program(<< >>,
        <<rule_func_def(g.f, g.ps, [i \in 1..k |-> Stmt(i, e)])>>)) :
        e \in Exprs, g \in Sigs, k \in 1..MaxBody}

\* the characters of the string literals tried, and the literals
LitChars == {"s", " ", "%", "{", "}"}
Lits == UNION {[1..n -> LitChars] : n \in 0..MaxLit}

\* func f() [ x = "<lit>" log "<lit>" ]
LitPrograms ==
    {rule_start(rule_program(<< >>,
        <<rule_func_def("f", << >>,
              <<rule_assignment(Var("x"), rule_string_literal(Quoted(l))),
                rule_log_stmt(Quoted(l))>>)>>)) : l \in Lits}

\* comparisons a op b and a op b op c, parenthesised and array expressions
CompareOps == {"==", "<", ">"}
Operands == {Int1, StrS, rule_call(Var("read_input"), << >>)}
MoreExprs ==
    {rule_compare(<<a, b>>, <<op>>) : a \in Operands, b \in Operands, op \in CompareOps}
    \cup {rule_compare(<<Int1, Int1, Int1>>, <<op, "==">>) : op \in CompareOps}
    \cup {rule_paren_expr(e) : e \in {Int1, StrS}}
    \cup {rule_array_literal(es) : es \in {<< >>, <<Int1>>, <<StrS, Int1>>}}

\* func f() [ p = e  x = e  return 0 ]
MorePrograms ==
    {rule_start(rule_program(<< >>,
        <<rule_func_def("f", << >>,
              <<rule_assignment(Var("p"), e), rule_assignment(Var("x"), e),
                rule_return_stmt(<<Int0>>)>>)>>)) : e \in MoreExprs}

\* func f(a) [ for x in coll [ y = x == "s"  z = "s" + x  x = "s"  return x ... ] ]
\* with 0..MaxBody statements in the body of the loop
ForPrograms ==
    {rule_start(rule_program(<< >>,
        <<rule_func_def("f", <<"a">>,
              <<rule_for_stmt("x", coll, [i \in 1..k |->
                    CASE i % 4 = 1 -> rule_assignment(Var("y"),
                                          rule_compare(<<Var("x"), StrS>>, <<"==">>))
                      [] i % 4 = 2 -> rule_assignment(Var("z"), rule_add(<<StrS, Var("x")>>))
                      [] i % 4 = 3 -> rule_assignment(Var("x"), StrS)
                      [] OTHER -> rule_return_stmt(<<Var("x")>>)])>>)>>)) :
        coll \in {Var("a"), rule_array_literal(<<StrS>>),
                  rule_call(Var("list_dir"), <<StrS>>)},
        k \in 0..MaxBody}

Programs ==
    ClassPrograms \cup FuncPrograms \cup LitPrograms \cup MorePrograms \cup ForPrograms

-----------------------------------------------------------------------------
(* compile_hcs *)

Init ==
    /\ \/ file = "ok" /\ tree \in Programs
       \/ file \in {"noarg", "missing", "garbled"} /\ tree = None
    /\ pc = "start"
    /\ visit = << >>
    /\ col_class = None
    /\ col_fields = << >>
    /\ col_names = {}
    /\ todo = << >>
    /\ stack = << >>
    /\ scopes = << << >> >>
    /\ current_class = None
    /\ has_main = FALSE
    /\ mode = "automatic"
    /\ emitted = << >>
    /\ c_code = None
    /\ exc = None
    /\ tmp_file = FALSE
    /\ gcc_calls = 0
    /\ gcc = "notrun"
    /\ status = None

TransformerVars == <<todo, stack, scopes, current_class, has_main, mode, emitted>>
CollectorVars == <<visit, col_class, col_fields, col_names>>
ProcessVars == <<file, tmp_file, gcc_calls, gcc, status>>

\* __main__ up to the read of the input file in compile_hcs
Main ==
    /\ pc = "start"
    /\ CASE file = "noarg" -> pc' = "exit" /\ status' = 1 /\ exc' = exc
         [] file = "missing" -> pc' = "raised" /\ status' = status
                                /\ exc' = "FileNotFoundError"
         [] OTHER -> pc' = "parse" /\ status' = status /\ exc' = exc
    /\ UNCHANGED <<file, tmp_file, gcc_calls, gcc, tree, c_code>>
    /\ UNCHANGED CollectorVars /\ UNCHANGED TransformerVars

\* parser.parse(text), then collector = Collector() and the start of its visit
Parse ==
    /\ pc = "parse"
    /\ IF file = "garbled"
       THEN pc' = "raised" /\ exc' = "UnexpectedInput" /\ visit' = visit
       ELSE pc' = "collect" /\ exc' = exc /\ visit' = VisitCalls(tree)
    /\ UNCHANGED <<tree, c_code, col_class, col_fields, col_names>>
    /\ UNCHANGED ProcessVars /\ UNCHANGED TransformerVars

\* Collector.class_def up to visit_children
Collector_class_def ==
    /\ pc = "collect" /\ visit # << >> /\ Head(visit).call = "class_def"
    /\ LET t == Head(visit).node IN
       IF Len(t.children) < 2
       THEN /\ pc' = "raised" /\ exc' = "IndexError"
            /\ UNCHANGED CollectorVars
       ELSE LET name == get_value(At(t.children, 1)) IN
            /\ col_names' = col_names \cup {name}
            /\ col_class' = Str(name)
            /\ col_fields' = IF DictHas(col_fields, name) THEN col_fields
                             ELSE DictSet(col_fields, name, << >>)
            /\ visit' = Tail(visit)
            /\ UNCHANGED <<pc, exc>>
    /\ UNCHANGED <<tree, c_code>> /\ UNCHANGED TransformerVars
    /\ UNCHANGED ProcessVars

\* Collector.class_def after visit_children
Collector_class_def_end ==
    /\ pc = "collect" /\ visit # << >> /\ Head(visit).call = "class_def_end"
    /\ col_class' = None
    /\ visit' = Tail(visit)
    /\ UNCHANGED <<pc, exc, tree, c_code, col_fields, col_names>>
    /\ UNCHANGED TransformerVars /\ UNCHANGED ProcessVars

Collector_visit_assignment ==
    /\ pc = "collect" /\ visit # << >> /\ Head(visit).call = "assignment"
    /\ LET r == Collector_assignment(Head(visit).node, col_class, col_fields) IN
       IF IsRaise(r)
       THEN /\ pc' = "raised" /\ exc' = r.exc
            /\ UNCHANGED CollectorVars
       ELSE /\ col_fields' = r.v
            /\ visit' = Tail(visit)
            /\ UNCHANGED <<pc, exc, col_class, col_names>>
    /\ UNCHANGED <<tree, c_code>> /\ UNCHANGED TransformerVars
    /\ UNCHANGED ProcessVars

\* transformer = CTransformer(collector.class_fields, collector.class_names)
\* and the call of transformer.transform(tree)
Transform ==
    /\ pc = "collect" /\ visit = << >>
    /\ pc' = "transform"
    /\ todo' = PostOrder(tree, << >>, << >>)
    /\ UNCHANGED <<tree, c_code, exc, stack, scopes, current_class, has_main, mode, emitted>>
    /\ UNCHANGED CollectorVars /\ UNCHANGED ProcessVars

\* a callback of the next node returns res (or raises): its result replaces
\* the results of the node's subtrees
Returns(res) ==
    IF IsRaise(res)
    THEN /\ pc' = "raised" /\ exc' = res.exc
         /\ UNCHANGED <<todo, stack, emitted>>
    ELSE /\ todo' = Tail(todo)
         /\ stack' = Append(Below, res)
         /\ emitted' = Append(emitted, [data |-> Item.data, cls |-> Item.cls,
                                        path |-> Item.path, res |-> res])
         /\ UNCHANGED <<pc, exc>>

Runs(data) == pc = "transform" /\ todo # << >> /\ Item.data = data

Pure == UNCHANGED <<tree, c_code, scopes, current_class, has_main, mode>>
            /\ UNCHANGED CollectorVars /\ UNCHANGED ProcessVars

T_params == Runs("params") /\ Returns(params(Kids)) /\ Pure
T_args == Runs("args") /\ Returns(args(Kids)) /\ Pure
T_var_access == Runs("var_access") /\ Returns(var_access(Kids, scopes)) /\ Pure
T_dot_access == Runs("dot_access") /\ Returns(dot_access(Kids, col_fields)) /\ Pure
T_call == Runs("call") /\ Returns(call(Kids, col_names)) /\ Pure
T_func_call == Runs("func_call") /\ Returns(func_call(Kids)) /\ Pure
T_new_expr == Runs("new_expr") /\ Returns(new_expr(Kids)) /\ Pure
T_string_literal == Runs("string_literal") /\ Returns(string_literal(Kids)) /\ Pure
T_int_literal == Runs("int_literal") /\ Returns(int_literal(Kids)) /\ Pure
T_add == Runs("add") /\ Returns(add(Kids)) /\ Pure
T_compare == Runs("compare") /\ Returns(compare(Kids)) /\ Pure
T_paren_expr == Runs("paren_expr") /\ Returns(paren_expr(Kids)) /\ Pure
T_array_literal == Runs("array_literal") /\ Returns(array_literal(Kids)) /\ Pure
T_log_stmt == Runs("log_stmt") /\ Returns(log_stmt(Kids)) /\ Pure
T_for_stmt == Runs("for_stmt") /\ Returns(for_stmt(Kids)) /\ Pure
T_return_stmt == Runs("return_stmt") /\ Returns(return_stmt(Kids)) /\ Pure
T_func_call_stmt == Runs("func_call_stmt") /\ Returns(func_call_stmt(Kids)) /\ Pure
T_start == Runs("start") /\ Returns(start(Kids)) /\ Pure

T_assignment ==
    /\ Runs("assignment")
    /\ LET r == assignment(Kids, scopes) IN
       /\ Returns(r.res)
       /\ scopes' = r.scopes
    /\ UNCHANGED <<tree, c_code, current_class, has_main, mode>>
    /\ UNCHANGED CollectorVars /\ UNCHANGED ProcessVars

T_func_def ==
    /\ Runs("func_def")
    /\ LET r == func_def(Kids, scopes, current_class, has_main) IN
       /\ Returns(r.res)
       /\ scopes' = r.scopes
       /\ has_main' = r.has_main
    /\ UNCHANGED <<tree, c_code, current_class, mode>>
    /\ UNCHANGED CollectorVars /\ UNCHANGED ProcessVars

T_class_def ==
    /\ Runs("class_def")
    /\ LET r == class_def(Kids, current_class, col_fields) IN
       /\ Returns(r.res)
       /\ current_class' = r.current_class
    /\ UNCHANGED <<tree, c_code, scopes, has_main, mode>>
    /\ UNCHANGED CollectorVars /\ UNCHANGED ProcessVars

T_program == Runs("program") /\ Returns(program(Kids, mode, has_main)) /\ Pure

\* c_code = transformer.transform(tree)
Transformed ==
    /\ pc = "transform" /\ todo = << >>
    /\ c_code' = Last(stack)
    /\ pc' = "done"
    /\ UNCHANGED <<tree, exc>> /\ UNCHANGED TransformerVars /\ UNCHANGED CollectorVars
    /\ UNCHANGED ProcessVars

\* a finally clause that removes the file only when gcc succeeded
remove_on_success(outcome, exists) == IF outcome = "ok" THEN FALSE ELSE exists

\* a script that ends with status 0 whatever happened
always_zero(p) == 0

\* the file /tmp/<input>.c after the finally clause:
\* if os.path.exists(tmp_c_file): os.remove(tmp_c_file)
finally_remove(outcome, exists) == FALSE

\* the exit status Python ends with: 0 when the script runs to its end, 1
\* when an exception is uncaught
exit_status(p) == IF p = "returned" THEN 0 ELSE 1

\* with open(tmp_c_file, 'w') as f: f.write(c_code)
WriteTmp ==
    /\ pc = "done"
    /\ tmp_file' = TRUE
    /\ pc' = "compile"
    /\ UNCHANGED <<file, gcc_calls, gcc, status, tree, c_code, exc>>
    /\ UNCHANGED TransformerVars /\ UNCHANGED CollectorVars

\* try: subprocess.check_call(compile_cmd) ... finally: remove the file.
\* check_call returns when gcc exits 0, raises CalledProcessError when it
\* exits non-zero and FileNotFoundError when gcc cannot be started.
RunGcc ==
    /\ pc = "compile"
    /\ \E outcome \in {"ok", "nonzero", "nostart"} :
         /\ gcc' = outcome
         /\ gcc_calls' = gcc_calls + 1
         /\ tmp_file' = finally_remove(outcome, tmp_file)
         /\ CASE outcome = "ok" -> pc' = "returned" /\ exc' = exc
              [] outcome = "nonzero" -> pc' = "raised" /\ exc' = "CalledProcessError"
              [] OTHER -> pc' = "raised" /\ exc' = "FileNotFoundError"
    /\ UNCHANGED <<file, status, tree, c_code>>
    /\ UNCHANGED TransformerVars /\ UNCHANGED CollectorVars

\* the end of the process: compile_hcs returned, or an exception nobody
\* catches reached the top of the script
Exit ==
    /\ pc \in {"returned", "raised"}
    /\ status' = exit_status(pc)
    /\ pc' = "exit"
    /\ UNCHANGED <<file, tmp_file, gcc_calls, gcc, tree, c_code, exc>>
    /\ UNCHANGED TransformerVars /\ UNCHANGED CollectorVars

Next ==
    \/ Main
    \/ Parse
    \/ Collector_class_def
    \/ Collector_class_def_end
    \/ Collector_visit_assignment
    \/ Transform
    \/ T_params
    \/ T_args
    \/ T_var_access
    \/ T_dot_access
    \/ T_call
    \/ T_func_call
    \/ T_new_expr
    \/ T_string_literal
    \/ T_int_literal
    \/ T_add
    \/ T_compare
    \/ T_paren_expr
    \/ T_array_literal
    \/ T_log_stmt
    \/ T_assignment
    \/ T_for_stmt
    \/ T_return_stmt
    \/ T_func_call_stmt
    \/ T_func_def
    \/ T_class_def
    \/ T_program
    \/ T_start
    \/ Transformed
    \/ WriteTmp
    \/ RunGcc
    \/ Exit

Spec == Init /\ [][Next]_vars

-----------------------------------------------------------------------------
(* Reading the source text and the emitted C for the properties below *)

\* the result recorded for the node at a path, once its callback has run
HasEntry(path) == \E i \in 1..Len(emitted) : emitted[i].path = path
EntryAt(path) == emitted[CHOOSE i \in 1..Len(emitted) : emitted[i].path = path]

\* the paths of the subtrees of the node at a path, in order
SubPaths(path) ==
    LET t == NodeAt(tree, path)
        idx == SelectSeq([i \in 1..Len(t.children) |-> i],
                         LAMBDA i : IsTree(t.children[i])) IN
    [j \in 1..Len(idx) |-> Append(path, idx[j])]

\* the first position of a chunk in a string, 0 if it has none
IndexOf(s, chunk) ==
    IF \E i \in 1..Len(s) : s[i] = chunk
    THEN CHOOSE i \in 1..Len(s) : s[i] = chunk /\ \A j \in 1..(i - 1) : s[j] # chunk
    ELSE 0

\* whether part occurs in s as a contiguous run of chunks
Contains(s, part) ==
    \E i \in 0..(Len(s) - Len(part)) : SubSeq(s, i + 1, i + Len(part)) = part

StartsWith(s, part) == Len(s) >= Len(part) /\ SubSeq(s, 1, Len(part)) = part

\* of an emitted function definition "<ret> <name>(<params>) { <body> }":
\* the name, the parameter list and the body ('' has none of them)
SigName(def) ==
    IF IndexOf(def, "(") = 0 THEN << >> ELSE SubSeq(def, 3, IndexOf(def, "(") - 1)
SigParams(def) ==
    IF IndexOf(def, "(") = 0 \/ IndexOf(def, ") { ") = 0 THEN << >>
    ELSE SubSeq(def, IndexOf(def, "(") + 1, IndexOf(def, ") { ") - 1)
SigBody(def) ==
    IF IndexOf(def, ") { ") = 0 THEN << >>
    ELSE SubSeq(def, IndexOf(def, ") { ") + 1, Len(def) - 1)

\* the function definitions whose callback has run
FuncDefs == {i \in 1..Len(emitted) : emitted[i].data = "func_def"}
\* the name the source gives the function of entry i
SrcName(i) == FirstID(NodeAt(tree, emitted[i].path).children)
\* the name a function gets in C: main becomes hs_main
CName(n) == IF n = <<"main">> THEN <<"hs_main">> ELSE n

-----------------------------------------------------------------------------
(* Properties *)

\* the classes the source declares, and the names it never assigns or
\* declares as a parameter
SrcClasses ==
    {FirstID(c.children) :
        c \in {x \in {Subtrees(tree.children[1])[i] :
                        i \in 1..Len(Subtrees(tree.children[1]))} : x.data = "class_def"}}
FreeNames == {<<"q">>}

\* C1: every function definition inside the body of a class C is emitted
\* as a C function named C_<name> whose parameter list starts with
\* `struct C* self`; a function outside any class gets neither the prefix
\* nor the self parameter.
C1_MethodsAreMangled ==
    \A i \in FuncDefs :
        LET e == emitted[i]
            def == e.res.s IN
        IF e.cls # << >>
        THEN /\ SigName(def) = e.cls \o <<"_">> \o CName(SrcName(i))
             /\ StartsWith(SigParams(def), <<"struct ">> \o e.cls \o <<"* self, ">>)
        ELSE /\ \A c \in SrcClasses : ~StartsWith(SigName(def), c \o <<"_">>)
             /\ ~StartsWith(SigParams(def), <<"struct ">>)

\* the method calls recv.m(args) lowered so far: the entries of the call
\* nodes whose callee is a dot_access
MethodCalls ==
    {i \in 1..Len(emitted) :
        /\ emitted[i].data = "call"
        /\ NodeAt(tree, SubPaths(emitted[i].path)[1]).data = "dot_access"}
\* of method call i: the receiver's node and fragment, the method's name,
\* and the fragments of the arguments
RecvPath(i) == SubPaths(SubPaths(emitted[i].path)[1])[1]
RecvNode(i) == NodeAt(tree, RecvPath(i))
RecvCode(i) == EntryAt(RecvPath(i)).res.c
MethodName(i) == FirstID(NodeAt(tree, SubPaths(emitted[i].path)[1]).children)
ArgCodes(i) ==
    LET sub == SubPaths(emitted[i].path) IN
    IF Len(sub) < 2 THEN << >>
    ELSE [j \in 1..Len(SubPaths(sub[2])) |-> EntryAt(SubPaths(sub[2])[j]).res.c]
\* name(recv, args...)
CallOf(name, i) ==
    name \o <<"(">> \o Join(<<", ">>, <<RecvCode(i)>> \o ArgCodes(i)) \o <<")">>

\* C2: a method call recv.m(args) whose receiver has static type
\* `struct C*` (here: the receiver is `new C()`) with C a declared class is
\* emitted as the mangled call C_m(recv, args...), the receiver fragment
\* first.
C2_KnownClassCallIsMangled ==
    \A i \in MethodCalls :
        (RecvNode(i).data = "new_expr" /\ FirstID(RecvNode(i).children) \in SrcClasses)
        => emitted[i].res.c
             = CallOf(FirstID(RecvNode(i).children) \o <<"_">> \o MethodName(i), i)

\* C3: a call recv.m(args) whose receiver's base type is not a known class
\* (here: an unbound variable, typed unknown; a string literal, typed
\* char*; `new U()` of an undeclared class U) is emitted as m(recv, args...).
C3_OtherReceiverCallIsFree ==
    \A i \in MethodCalls :
        (\/ RecvNode(i).data = "string_literal"
         \/ RecvNode(i).data = "var_access" /\ FirstID(RecvNode(i).children) \in FreeNames
         \/ RecvNode(i).data = "new_expr" /\ FirstID(RecvNode(i).children) \notin SrcClasses)
        => emitted[i].res.c = CallOf(MethodName(i), i)

\* the parameters the source gives the function of entry i
SrcParams(i) ==
    LET sub == Subtrees(NodeAt(tree, emitted[i].path))
        ps == SelectSeq(sub, LAMBDA t : t.data = "params") IN
    IF ps = << >> THEN << >>
    ELSE LET ids == SelectSeq(ps[1].children, LAMBDA c : c.type = "ID") IN
         [j \in 1..Len(ids) |-> ids[j].value]

\* "<type> <p>, ..." with Array for args and char* for the others
ParamDecls(ps) ==
    Join(<<", ">>, [j \in 1..Len(ps) |->
        (IF ps[j] = <<"args">> THEN T_Array ELSE T_charp) \o <<" ">> \o ps[j]])

\* C4: in the emitted signature of every function a parameter named args
\* is declared Array and every other parameter char*; func main(args) is
\* emitted with the signature `int hs_main(Array args)`.
C4_ParamsAreDeclared ==
    \A i \in FuncDefs :
        LET def == emitted[i].res.s
            ps == SrcParams(i) IN
        /\ ps # << >> =>
             \E pre \in {<< >>, <<"struct ">> \o emitted[i].cls \o <<"* self, ">>} :
                 SigParams(def) = pre \o ParamDecls(ps)
        /\ (emitted[i].cls = << >> /\ SrcName(i) = <<"main">> /\ ps = <<<<"args">>>>)
           => StartsWith(def, <<"int", " ", "hs_main", "(", "Array", " ", "args", ") { ">>)

\* C5: the wrapper `int main(int argc, char** argv)` is appended to the
\* output if and only if a C function named exactly hs_main is among the
\* emitted definitions, that is, the source defined a function named main
\* that was emitted; a program with no main gets no wrapper.
C5_WrapperIffMain ==
    pc = "done" =>
        LET wrapper == Contains(c_code.s, MainWrapper)
            hs_main == \E i \in FuncDefs : SigName(emitted[i].res.s) = <<"hs_main">>
            src_main == \E i \in FuncDefs :
                            /\ emitted[i].cls = << >>
                            /\ SrcName(i) = <<"main">>
                            /\ emitted[i].res.s # << >> IN
        /\ wrapper <=> hs_main
        /\ hs_main <=> src_main

\* the bare identifiers the body of the function of entry i assigns to
AssignedIn(i) ==
    LET sub == Subtrees(NodeAt(tree, emitted[i].path)) IN
    {FirstID(Subtrees(sub[j])[1].children) :
        j \in {m \in 1..Len(sub) : /\ sub[m].data = "assignment"
                                   /\ Subtrees(sub[m])[1].data = "var_access"}}
\* whether a definition holds the declaration "<type> x;" before its statements
Declares(def, x) == Contains(SigBody(def), <<" ">> \o x \o <<";\n">>)

\* C6: for every function whose body assigns to a bare identifier x that
\* is not a parameter and was not bound before, the emitted body starts
\* with a declaration `<type> x;`, and x is declared in that function only.
C6_LocalsAreDeclared ==
    \A i \in FuncDefs :
        LET def == emitted[i].res.s
            ps == SrcParams(i)
            assigned == {x \in AssignedIn(i) : \A j \in 1..Len(ps) : ps[j] # x} IN
        /\ \A x \in assigned : Declares(def, x)
        /\ \A k \in FuncDefs :
               \A x \in AssignedIn(k) :
                   (x \notin AssignedIn(i)) => ~Declares(def, x)

\* the class definitions of the source
SrcClassNodes ==
    SelectSeq(Subtrees(tree.children[1]), LAMBDA t : t.data = "class_def")
\* whether an expression is `self.<field>`
IsSelfField(l) ==
    /\ l.data = "dot_access"
    /\ Subtrees(l) # << >>
    /\ Subtrees(l)[1].data = "var_access"
    /\ FirstID(Subtrees(l)[1].children) = <<"self">>
\* the assignments `self.f = e` inside the body of a class, in textual order
SelfAssignments(c) ==
    LET ms == Subtrees(c)
        stmts == Concat([j \in 1..Len(ms) |-> Subtrees(ms[j])])
        asg == SelectSeq(stmts, LAMBDA t : t.data = "assignment"
                                           /\ IsSelfField(Subtrees(t)[1])) IN
    [j \in 1..Len(asg) |-> [f |-> FirstID(Subtrees(asg[j])[1].children),
                            rhs |-> Last(Subtrees(asg[j]))]]

\* C7: after the collector pass, for every class C and every assignment
\* `self.f = e` inside C's body the class table has an entry f under C
\* whose type is infer_type(e) of the textually last such assignment to f;
\* nothing else is recorded.
C7_FieldsAreRecorded ==
    pc \in {"transform", "done"} =>
        /\ \A n \in 1..Len(SrcClassNodes) :
             LET C == FirstID(SrcClassNodes[n].children)
                 sa == SelfAssignments(SrcClassNodes[n]) IN
             \A j \in 1..Len(sa) :
                 LET last == CHOOSE m \in 1..Len(sa) :
                                 sa[m].f = sa[j].f
                                 /\ \A o \in (m + 1)..Len(sa) : sa[o].f # sa[j].f
                     r == Collector_infer_type(sa[last].rhs) IN
                 ~IsRaise(r) =>
                     /\ DictHas(col_fields, C)
                     /\ DictHas(DictGet(col_fields, C, << >>), sa[j].f)
                     /\ DictGet(DictGet(col_fields, C, << >>), sa[j].f, T_unknown) = r.v
        /\ \A n \in 1..Len(col_fields) :
             /\ col_fields[n].key \in SrcClasses
             /\ \A m \in 1..Len(col_fields[n].val) :
                  \E c \in 1..Len(SrcClassNodes) :
                      /\ FirstID(SrcClassNodes[c].children) = col_fields[n].key
                      /\ \E j \in 1..Len(SelfAssignments(SrcClassNodes[c])) :
                            SelfAssignments(SrcClassNodes[c])[j].f = col_fields[n].val[m].key

\* C8: for an addition chain of n >= 2 operands the collector's infer_type
\* returns char* if at least one operand (at any position) infers to
\* char*, and int otherwise (so int + str + int is char*).  Checked on the
\* right-hand side of every assignment the collector visits.
C8_AddChainInfersString ==
    (pc = "collect" /\ visit # << >> /\ Head(visit).call = "assignment") =>
        LET rhs == Last(Subtrees(Head(visit).node))
            ops == Subtrees(rhs) IN
        rhs.data = "add" =>
            Collector_infer_type(rhs)
              = Ret(IF \E j \in 1..Len(ops) : Collector_infer_type(ops[j]) = Ret(T_charp)
                    THEN T_charp ELSE T_int)

\* C9: the collector and the emitter use the same call-return table: for a
\* bare call n(...) the type the collector's infer_type gives equals the
\* result type the emitter gives to the same call.
C9_CallTablesAgree ==
    \A i \in 1..Len(emitted) :
        (/\ emitted[i].data = "call"
         /\ NodeAt(tree, SubPaths(emitted[i].path)[1]).data = "var_access")
        => Ret(emitted[i].res.t) = Collector_infer_type(NodeAt(tree, emitted[i].path))

\* one step of a lowered addition chain, as the rule for `+` states it
AddStep(left, right) ==
    IF left.t = T_charp \/ right.t = T_charp
    THEN Pair(<<"(char*)({ char *res = NULL; asprintf(&res, \"%s%s\", ">>
              \o left.c \o <<", ">> \o right.c \o <<"); res; })">>, T_charp)
    ELSE Pair(<<"(">> \o left.c \o <<" + ">> \o right.c \o <<")">>, T_int)
RECURSIVE LoweredChain(_, _)
LoweredChain(left, rest) ==
    IF rest = << >> THEN left ELSE LoweredChain(AddStep(left, Head(rest)), Tail(rest))

\* C10: lowering an addition chain, each step that combines the accumulated
\* left fragment with the next operand is the asprintf "%s%s" form typed
\* char* exactly when the left type or the operand type is char*, and
\* `(a + b)` typed int otherwise; the chain's type is char* iff some operand
\* is char*.
C10_AddChainIsLowered ==
    \A i \in 1..Len(emitted) :
        emitted[i].data = "add" =>
            LET sub == SubPaths(emitted[i].path)
                ops == [j \in 1..Len(sub) |-> EntryAt(sub[j]).res] IN
            /\ emitted[i].res = LoweredChain(ops[1], Tail(ops))
            /\ emitted[i].res.t = T_charp <=> \E j \in 1..Len(ops) : ops[j].t = T_charp

-----------------------------------------------------------------------------
\* the operators of a comparison node, as far as the tree still holds them:
\* with the literals filtered out of the tree any operator is possible
SrcOps(node) ==
    LET toks == SelectSeq(node.children, LAMBDA c : IsToken(c) /\ c.type = "ANON") IN
    IF toks = << >> THEN CompareOps ELSE {toks[1].value[1]}

\* what the rule for comparisons gives for `a op b`
Compared(op, a, b) ==
    IF op = "==" /\ a.t = T_charp /\ b.t = T_charp
    THEN Pair(<<"(strcmp(">> \o a.c \o <<", ">> \o b.c \o <<") == 0)">>, T_bool)
    ELSE Pair(<<"(">> \o a.c
              \o <<CASE op = "==" -> " == " [] op = "<" -> " < " [] OTHER -> " > ">>
              \o b.c \o <<")">>, T_bool)

\* C11: for a comparison `a op b` the emitter produces the strcmp-based
\* test if and only if op is `==` and both operands are char*; in every
\* other case it emits the plain C operator on the two fragments; the
\* result type is always bool.
C11_CompareIsLowered ==
    \A i \in 1..Len(emitted) :
        (emitted[i].data = "compare" /\ Len(SubPaths(emitted[i].path)) = 2) =>
            LET sub == SubPaths(emitted[i].path)
                a == EntryAt(sub[1]).res
                b == EntryAt(sub[2]).res IN
            /\ emitted[i].res.t = T_bool
            /\ \E op \in SrcOps(NodeAt(tree, emitted[i].path)) :
                   emitted[i].res = Compared(op, a, b)

-----------------------------------------------------------------------------
\* the characters of the literal of a string_literal node, without the quotes
LitOf(node) ==
    LET q == node.children[1].value IN SubSeq(q, 2, Len(q) - 1)

Has(s, ch) == \E i \in 1..Len(s) : s[i] = ch
First(s, ch) == CHOOSE i \in 1..Len(s) : s[i] = ch /\ \A j \in 1..(i - 1) : s[j] # ch

\* the literal is text with groups `{...}`, each closed and none inside
\* another
RECURSIVE WellFormed(_)
WellFormed(s) ==
    IF ~Has(s, "{") THEN ~Has(s, "}")
    ELSE LET i == First(s, "{")
             rest == SubSeq(s, i + 1, Len(s)) IN
         /\ ~Has(SubSeq(s, 1, i - 1), "}")
         /\ Has(rest, "}")
         /\ ~Has(SubSeq(rest, 1, First(rest, "}") - 1), "{")
         /\ WellFormed(SubSeq(rest, First(rest, "}") + 1, Len(rest)))

\* the format (each group replaced by one %s, the other characters kept)
\* and the group texts of a well-formed literal
RECURSIVE GroupsOf(_)
GroupsOf(s) ==
    IF ~Has(s, "{") THEN [fmt |-> s, args |-> << >>]
    ELSE LET i == First(s, "{")
             rest == SubSeq(s, i + 1, Len(s))
             j == First(rest, "}")
             r == GroupsOf(SubSeq(rest, j + 1, Len(rest))) IN
         [fmt |-> SubSeq(s, 1, i - 1) \o <<"%s">> \o r.fmt,
          args |-> <<SubSeq(rest, 1, j - 1)>> \o r.args]

\* the characters of a format string
RECURSIVE Chars(_)
Chars(fmt) ==
    IF fmt = << >> THEN << >>
    ELSE (IF Head(fmt) = "%s" THEN <<"%", "s">> ELSE <<Head(fmt)>>) \o Chars(Tail(fmt))

\* how many `%s` conversions asprintf finds in a format (%% is a percent sign)
RECURSIVE Placeholders(_)
Placeholders(cs) ==
    IF Len(cs) < 2 THEN 0
    ELSE IF cs[1] # "%" THEN Placeholders(Tail(cs))
    ELSE (IF cs[2] = "s" THEN 1 ELSE 0) + Placeholders(Tail(Tail(cs)))

\* the format string between the quotes of an emitted asprintf expression
FormatOf(code) ==
    IF Len(code) < 2 \/ ~Has(code, "\", ") THEN << >>
    ELSE SubSeq(code, 2, First(code, "\", ") - 1)

\* C12: a string literal with no `{` is emitted unchanged as a quoted C
\* literal; otherwise it is emitted as one asprintf statement-expression
\* whose format is the literal with each `{...}` group replaced by one %s
\* and whose arguments are the group texts in order, so the number of %s
\* placeholders of the format equals the number of arguments.
C12_InterpolationIsLowered ==
    \A i \in 1..Len(emitted) :
        (emitted[i].data = "string_literal"
         /\ WellFormed(LitOf(NodeAt(tree, emitted[i].path)))) =>
            LET s == LitOf(NodeAt(tree, emitted[i].path))
                g == GroupsOf(s)
                code == emitted[i].res.c IN
            IF ~Has(s, "{") THEN code = Quoted(s)
            ELSE /\ code = <<"(char*)({ char *str = NULL; asprintf(&str, \"">> \o g.fmt
                           \o <<"\", ">> \o Join(<<", ">>, g.args) \o <<"); str; })">>
                 /\ Placeholders(Chars(FormatOf(code))) = Len(g.args)

-----------------------------------------------------------------------------
\* the index of the `}` that matches a `{`: the first position from j on
\* where as many `}` as `{` have been read (0 if there is none)
RECURSIVE Match(_, _, _)
Match(s, j, depth) ==
    IF j > Len(s) THEN 0
    ELSE IF s[j] = "{" THEN Match(s, j + 1, depth + 1)
    ELSE IF s[j] = "}" THEN (IF depth = 0 THEN j ELSE Match(s, j + 1, depth - 1))
    ELSE Match(s, j + 1, depth)

\* every `{` of the literal has its matching `}` and no `}` is left over
RECURSIVE Balanced(_)
Balanced(s) ==
    IF ~Has(s, "{") THEN ~Has(s, "}")
    ELSE LET i == First(s, "{")
             m == Match(s, i + 1, 0) IN
         /\ ~Has(SubSeq(s, 1, i - 1), "}")
         /\ m # 0
         /\ Balanced(SubSeq(s, m + 1, Len(s)))

\* the format and the captured texts of a balanced literal, each capture
\* reaching to the matching `}`
RECURSIVE BalancedGroupsOf(_)
BalancedGroupsOf(s) ==
    IF ~Has(s, "{") THEN [fmt |-> s, args |-> << >>]
    ELSE LET i == First(s, "{")
             m == Match(s, i + 1, 0)
             r == BalancedGroupsOf(SubSeq(s, m + 1, Len(s))) IN
         [fmt |-> SubSeq(s, 1, i - 1) \o <<"%s">> \o r.fmt,
          args |-> <<strip(SubSeq(s, i + 1, m - 1))>> \o r.args]

\* C13: the captured expression of a `{` is lexically balanced: it extends
\* to the `}` that matches that `{`, so for nested braces such as {a{b}c}
\* the whole text between the outer braces is one argument and no brace
\* character is left in the format string.
C13_CaptureIsBalanced ==
    \A i \in 1..Len(emitted) :
        (/\ emitted[i].data = "string_literal"
         /\ Has(LitOf(NodeAt(tree, emitted[i].path)), "{")
         /\ Balanced(LitOf(NodeAt(tree, emitted[i].path)))) =>
            LET g == BalancedGroupsOf(LitOf(NodeAt(tree, emitted[i].path)))
                code == emitted[i].res.c IN
            /\ code = <<"(char*)({ char *str = NULL; asprintf(&str, \"">> \o g.fmt
                      \o <<"\", ">> \o Join(<<", ">>, g.args) \o <<"); str; })">>
            /\ ~Has(FormatOf(code), "{") /\ ~Has(FormatOf(code), "}")

-----------------------------------------------------------------------------
\* compile_hcs has finished: it returned, or an exception left it
Finished == pc \in {"returned", "raised", "exit"}

C15_ExitStatus ==
    /\ gcc_calls <= 1
    /\ pc = "exit" =>
         /\ status = 0 <=> (file = "ok" /\ gcc = "ok")
         /\ (file \in {"missing", "garbled"} \/ gcc \in {"nonzero", "nostart"}) => status # 0

\* a compile that succeeded, and one whose child compiler failed, have ended
C15_Witness ==
    pc = "exit" /\ gcc_calls = 1 /\ ((gcc = "ok" /\ status = 0) \/ (gcc = "nonzero" /\ status = 1))

-----------------------------------------------------------------------------
\* C16: a tree-shape mismatch never aborts emission: a handler whose child
\* list is shorter than it expects returns the empty fragment instead of
\* raising, and emission of the other nodes continues; so the compile never
\* ends with callbacks of the emitter still to run.
C16_EmissionNeverAborts ==
    pc \in {"raised", "exit"} => todo = << >>

-----------------------------------------------------------------------------
\* the members of struct C: the fields the collector recorded for C, in
\* recording order, or the dummy member when there is none
StructMembers(C) ==
    LET fields == DictGet(col_fields, C, << >>) IN
    IF fields = << >> THEN <<"char dummy; // to avoid empty struct\n">>
    ELSE Concat([j \in 1..Len(fields) |->
                    fields[j].val \o <<" ">> \o fields[j].key \o <<";\n">>])

\* C17: for every class C the emitter outputs `struct C { ... };` whose
\* members are exactly the fields the collector recorded for C, each as
\* `<type> <field>;` in recording order, followed by C's lowered methods;
\* when no field was recorded the struct body is the member `char dummy;`.
C17_ClassIsLowered ==
    \A i \in 1..Len(emitted) :
        emitted[i].data = "class_def" =>
            LET C == FirstID(NodeAt(tree, emitted[i].path).children)
                sub == SubPaths(emitted[i].path)
                methods == Concat([j \in 1..Len(sub) |-> EntryAt(sub[j]).res.s]) IN
            emitted[i].res.s =
                <<"struct ">> \o C \o <<" { ">> \o StructMembers(C) \o <<" };\n">> \o methods

-----------------------------------------------------------------------------
\* a step of the emitter that completes the callback of an assignment node
AssignmentStep ==
    /\ pc = "transform" /\ todo # << >> /\ Item.data = "assignment"
    /\ todo' = Tail(todo)

\* C18: emitting an assignment adds a binding to the scope stack exactly
\* when the left-hand fragment is a bare identifier that no frame binds:
\* the binding goes into the innermost frame with the right-hand type,
\* unknown widened to char*.  In every other case the scope stack is left
\* unchanged.
C18_AssignmentBinds ==
    [][AssignmentStep =>
          LET results == SelectSeq(Kids, IsTuple)
              lhs == results[1]
              rhs == results[Len(results)] IN
          IF lhs.c # << >> /\ IsBareName(lhs.c) /\ get_type(scopes, lhs.c) = None
          THEN scopes' = BindInnermost(scopes, lhs.c,
                                       IF rhs.t = T_unknown THEN T_charp ELSE rhs.t)
          ELSE scopes' = scopes]_vars

-----------------------------------------------------------------------------
\* the callbacks of function definitions that have run
FuncDefsEmitted == {i \in 1..Len(emitted) : emitted[i].data = "func_def"}

\* the emitted assignments to a bare identifier
BareAssignments ==
    {i \in 1..Len(emitted) :
        /\ emitted[i].data = "assignment"
        /\ NodeAt(tree, SubPaths(emitted[i].path)[1]).data = "var_access"}

\* C19: the outermost scope frame is empty in every state of the emitter
\* pass: no assignment inside any function body ever adds a binding to it,
\* so a local of one function is never typed while another is emitted.
C19_OutermostFrameEmpty ==
    Len(scopes) >= 1 /\ scopes[1] = << >>

\* two functions were emitted, the first of them after an assignment to a
\* bare identifier in its body
C19_Witness ==
    /\ pc = "transform"
    /\ \E a \in BareAssignments : \E f, g \in FuncDefsEmitted : a < f /\ f < g

\* a step of the emitter that completes the callback of a func_def node
FuncDefStep ==
    /\ pc = "transform" /\ todo # << >> /\ Item.data = "func_def"
    /\ todo' = Tail(todo)

\* C20: every push of a scope frame is paired with one pop: when the
\* emission of a function definition completes (the early empty return
\* included) the scope stack is as deep as before, the depth is never
\* below 1 and it is exactly 1 when the program node is emitted.
C20_PushPopPaired ==
    /\ [](Len(scopes) >= 1)
    /\ []((pc = "transform" /\ todo # << >> /\ Item.data = "program") => Len(scopes) = 1)
    /\ [][FuncDefStep => Len(scopes') = Len(scopes)]_vars

\* a function definition was emitted in full (its frame pushed and popped)
\* and the program node is next
C20_Witness ==
    /\ pc = "transform" /\ todo # << >> /\ Item.data = "program"
    /\ \E f \in FuncDefsEmitted : emitted[f].res.s # << >>
    /\ \E f \in FuncDefsEmitted : emitted[f].res.s = << >>

-----------------------------------------------------------------------------
\* the loop variables of the for statements whose body holds the node at a
\* path: the body of a for_stmt is every subtree after the collection
LoopVars(path) ==
    {FirstID(NodeAt(tree, SubSeq(path, 1, n)).children) :
        n \in {m \in 0..(Len(path) - 1) :
                 /\ NodeAt(tree, SubSeq(path, 1, m)).data = "for_stmt"
                 /\ SubSeq(path, 1, m + 1) # SubPaths(SubSeq(path, 1, m))[1]}}

\* the identifier a var_access node of the source names
SrcVar(path) == FirstID(NodeAt(tree, path).children)

\* C21: while the body statements of `for x in coll [ body ]` are emitted
\* the loop variable x is bound in the scope stack with type char*: every
\* use of x inside the body is emitted with type char*, and an assignment
\* to x inside the body adds no binding.
C21_LoopVarIsBound ==
    /\ []((pc = "transform" /\ todo # << >>) =>
             \A x \in LoopVars(Item.path) : get_type(scopes, x) = Ret(T_charp))
    /\ [](\A i \in 1..Len(emitted) :
             (emitted[i].data = "var_access" /\ SrcVar(emitted[i].path) \in LoopVars(emitted[i].path))
                => emitted[i].res = Pair(SrcVar(emitted[i].path), T_charp))
    /\ [][(/\ AssignmentStep
           /\ NodeAt(tree, SubPaths(Item.path)[1]).data = "var_access"
           /\ SrcVar(SubPaths(Item.path)[1]) \in LoopVars(Item.path))
             => scopes' = scopes]_vars

-----------------------------------------------------------------------------
\* the emitted assignments of the form <bare identifier> = <expression whose
\* emitted type is unknown>
UnknownAssignments ==
    {i \in BareAssignments :
        LET ps == SubPaths(emitted[i].path) IN
        /\ Len(ps) = 2 /\ HasEntry(ps[2])
        /\ IsTuple(EntryAt(ps[2]).res) /\ EntryAt(ps[2]).res.t = T_unknown}

\* C22: in every state of the emitter no frame of the scope stack binds a
\* name to the type unknown (parameters are bound to Array or char* only,
\* assignments widen unknown to char*), so the lookup of a bound name never
\* yields unknown and no emitted function declares a parameter or a local
\* of type unknown.
C22_NoUnknownBinding ==
    /\ \A i \in 1..Len(scopes) : \A j \in 1..Len(scopes[i]) :
          scopes[i][j].val # T_unknown
    /\ (pc = "transform" /\ todo # << >> /\ Item.data = "var_access" /\ Kids # << >>)
          => get_type(scopes, get_value(Kids[1])) # Ret(T_unknown)
    /\ \A f \in FuncDefsEmitted :
          ~Contains(emitted[f].res.s, T_unknown \o <<" ">>)

\* a function with parameters was emitted in full after an assignment of
\* an expression of unknown type to a bare identifier in its body
C22_Witness ==
    /\ pc = "transform"
    /\ \E a \in UnknownAssignments : \E f \in FuncDefsEmitted :
          /\ a < f
          /\ emitted[f].res.s # << >>
          /\ \E c \in 1..Len(NodeAt(tree, emitted[f].path).children) :
                LET n == NodeAt(tree, emitted[f].path).children[c] IN
                IsTree(n) /\ n.data = "params"

====
